---- MODULE Spec2Model ----
(***************************************************************************)
(* Model of app/scripts/helper/schedule.js (class Schedule): the replay of *)
(* queued offline requests (replayQueuedRequests) and the teardown of the  *)
(* queue (clearQueuedRequests).                                            *)
(*                                                                         *)
(* Every action is one browser task together with the promise reactions    *)
(* (microtasks) it triggers: a settled XHR or IndexedDB request runs its   *)
(* then/catch handlers, Promise.all and the toast before any other task.   *)
(***************************************************************************)
EXTENDS Integers, Sequences, FiniteSets, TLC

\* ---------------------------------------------------------------- bounds
\* Number of distinct request urls that may be queued.
MaxQueue == 2
\* Number of replayQueuedRequests invocations in one behaviour.
MaxInvocations == 2

\* Number of calls of each of fetchSchedule, schedulePromise,
\* resolveSchedulePromise and submitSessionRequest in one behaviour.
MaxCalls == 2
\* Number of distinct schedule data values (responses, deferred payloads).
MaxData == 2
\* Number of distinct session ids.
MaxSessions == 3

Urls == 1..MaxQueue
Invs == 1..MaxInvocations
\* In the specifications with fairness the invocations follow one another
\* without end, each taking over the record of the one before it.
LiveInvs == {1}
Methods == {"GET", "PUT"}

\* ------------------------------------------------------------- constants
\* The static getters of class Schedule.
ScheduleStatics ==
  [ QUEUED_SESSION_API_UPDATES_DB_NAME |-> "toolbox-offline-session-updates",
    SCHEDULE_ENDPOINT |-> "api/v1/schedule",
    SURVEY_ENDPOINT |-> "api/v1/user/survey" ]

\* Schedule.<prop>: reading a property the class does not define yields
\* undefined, which IndexedDB takes as the database name "undefined".
StaticGet(prop) ==
  IF prop \in DOMAIN ScheduleStatics THEN ScheduleStatics[prop] ELSE "undefined"

QUEUED_SESSION_API_UPDATES_DB_NAME == StaticGet("QUEUED_SESSION_API_UPDATES_DB_NAME")

DbNames == {"toolbox-offline-session-updates", "undefined"}

SUCCESS_MSG == "My Schedule was updated with offline changes."
FAILURE_MSG == "Offline changes could not be applied to My Schedule."

\* A queue is a mapping url -> method over some of the urls.
Queues == UNION {[S -> Methods] : S \in SUBSET Urls}
EmptyQueue == [u \in {} |-> "GET"]

\* States of one replayPromise (xhrPromise(...).then(() => db.delete(url))):
\*   none      the entry has not been visited by forEach
\*   inflight  the request is pending
\*   deleting  the request succeeded and db.delete(url) is pending
\*   ok        fulfilled (with true)
\*   reqfail   rejected because the request failed
\*   delfail   rejected because db.delete failed
ReplayStates == {"none", "inflight", "deleting", "ok", "reqfail", "delfail"}
Rejected == {"reqfail", "delfail"}
Pending == {"inflight", "deleting"}

VARIABLES
  serviceWorker,   \* 'serviceWorker' in navigator
  stores,          \* IndexedDB: database name -> queue (url -> method)
  pc,              \* per invocation: idle, opening, iterating, joining, done
  opened,          \* per invocation: state of the simpleDB.open promise
  cursor,          \* per invocation: the entries db.forEach iterates over
  replayPromises,  \* per invocation: the array replayPromises (by url)
  rp,              \* per invocation and url: state of its replayPromise
  requests,        \* per invocation: the (method, url) requests issued
  toasts,          \* per invocation: messages given to Toast.showMessage
  returned,        \* per invocation: state of the returned promise
  clearState       \* state of the promise of clearQueuedRequests

VARIABLES
  scheduleData_,   \* this.scheduleData_ (NULL until loaded)
  raw,             \* per deferred: the data its resolver was called with
  derived,         \* per deferred: the value scheduleDeferredPromise holds
  promiseId,       \* which deferred this.scheduleDeferredPromise belongs to
  resolverId,      \* which deferred this.scheduleDeferredPromiseResolver resolves
  created,         \* number of deferreds createScheduleDeferred_ has made
  resolveCalls,    \* number of resolveSchedulePromise calls so far
  handed,          \* per schedulePromise() call: the deferred of the promise returned
  seen,            \* per schedulePromise() call: what its continuation observed
  fetches,         \* per fetchSchedule() call: request issued?, state, value
  loadPc,          \* loadUserSchedule: idle, waitSchedule, waitSignIn, registered, refused
  loadHanded,      \* the deferred of the promise loadUserSchedule waits on
  signIn,          \* the waitForSignedIn promise of loadUserSchedule
  fetchingUserData,\* app.scheduleFetchingUserData
  sessionListener, \* registerToSessionUpdates has been called
  feedbackListener \* registerToFeedbackUpdates has been called

VARIABLES
  xhrProgressEvent,\* the global XMLHttpRequestProgressEvent is defined
  submits          \* per submitSessionRequest call: its progress and effects

VARIABLES
  savedSessions,   \* app.savedSessions
  lastUpdate       \* the arguments of the last session-update callback

replayVars == <<serviceWorker, stores, pc, opened, cursor, replayPromises, rp,
                requests, toasts, returned, clearState>>
scheduleVars == <<scheduleData_, raw, derived, promiseId, resolverId, created,
                  resolveCalls, handed, seen, fetches, loadPc, loadHanded,
                  signIn, fetchingUserData, sessionListener, feedbackListener>>
submitVars == <<xhrProgressEvent, submits>>
sessionVars == <<savedSessions, lastUpdate>>
\* What the replay and the teardown of the queue leave alone.
nonReplayVars == <<scheduleVars, submitVars, sessionVars>>

vars == <<replayVars, nonReplayVars>>

queue == stores[QUEUED_SESSION_API_UPDATES_DB_NAME]

TypeOK ==
  /\ serviceWorker \in BOOLEAN
  /\ stores \in [DbNames -> Queues]
  /\ pc \in [Invs -> {"idle", "opening", "iterating", "joining", "done"}]
  /\ opened \in [Invs -> {"none", "pending", "ok", "failed"}]
  /\ cursor \in [Invs -> Queues]
  /\ \A i \in Invs : replayPromises[i] \in Seq(Urls)
  /\ rp \in [Invs -> [Urls -> ReplayStates]]
  /\ \A i \in Invs : requests[i] \subseteq [method : Methods, url : Urls]
  /\ \A i \in Invs : toasts[i] \in Seq({SUCCESS_MSG, FAILURE_MSG})
  /\ returned \in [Invs -> {"none", "pending", "fulfilled", "rejected"}]
  /\ clearState \in {"idle", "pending", "fulfilled", "rejected"}

\* The queue store holds whatever earlier offline sessions left in it; no
\* database named "undefined" has been written.
InitReplay ==
  /\ serviceWorker \in BOOLEAN
  /\ \E q \in Queues :
       stores = [n \in DbNames |->
                   IF n = QUEUED_SESSION_API_UPDATES_DB_NAME THEN q ELSE EmptyQueue]
  /\ pc = [i \in Invs |-> "idle"]
  /\ opened = [i \in Invs |-> "none"]
  /\ cursor = [i \in Invs |-> EmptyQueue]
  /\ replayPromises = [i \in Invs |-> <<>>]
  /\ rp = [i \in Invs |-> [u \in Urls |-> "none"]]
  /\ requests = [i \in Invs |-> {}]
  /\ toasts = [i \in Invs |-> <<>>]
  /\ returned = [i \in Invs |-> "none"]
  /\ clearState = "idle"

\* null, as in this.scheduleData_ = null.
NULL == 0
\* Schedule data values; all of them are objects, hence truthy.
Datas == 1..MaxData
Truthy(x) == x # NULL

\* The argument of resolveSchedulePromise: {scheduleData, tags}.
Payloads == [scheduleData : Datas, tags : {"tags"}]
NoPayload == [scheduleData |-> NULL, tags |-> "none"]

\* A deferred is made by each call of createScheduleDeferred_.
DeferredIds == 1..(2 * MaxCalls + 1)

SessionIds == 1..MaxSessions

\* The state the constructor leaves, and an application that has started
\* none of the other operations.
InitConstructed ==
  /\ scheduleData_ = NULL
  /\ raw = [d \in DeferredIds |-> NoPayload]
  /\ derived = [d \in DeferredIds |-> NULL]
  /\ promiseId = NULL
  /\ resolverId = NULL
  /\ created = 0
  /\ resolveCalls = 0
  /\ handed = <<>>
  /\ seen = <<>>
  /\ fetches = <<>>
  /\ loadPc = "idle"
  /\ loadHanded = NULL
  /\ signIn = "none"
  /\ fetchingUserData = FALSE
  /\ sessionListener = FALSE
  /\ feedbackListener = FALSE
  /\ submits = <<>>
  /\ savedSessions = <<>>
  /\ lastUpdate = [sessionId |-> NULL, data |-> "none"]

\* The queue replay does not read the global XMLHttpRequestProgressEvent;
\* it is taken as absent there.
Init == InitReplay /\ InitConstructed /\ xhrProgressEvent = FALSE

\* ------------------------------------------------------------- helpers
\* Variant of DbDelete: the delete names a key that is not the entry's url
\* and removes nothing.
DbDeleteWrongKey(q, u) == q

\* db.delete(url): removing a key that is not there is a no-op.
DbDelete(q, u) == [k \in (DOMAIN q) \ {u} |-> q[k]]

\* Variant of PromiseAll: a barrier that waits for every promise to settle
\* and is fulfilled whatever their outcomes.
PromiseAllSettled(ps) ==
  IF \A k \in DOMAIN ps : ps[k] \in {"ok", "reqfail", "delfail"} THEN "fulfilled"
  ELSE "pending"

\* Promise.all over promises in the given states: rejected as soon as one
\* of them is rejected, fulfilled when all are fulfilled.
PromiseAll(ps) ==
  IF \E k \in DOMAIN ps : ps[k] \in Rejected THEN "rejected"
  ELSE IF \A k \in DOMAIN ps : ps[k] = "ok" THEN "fulfilled"
  ELSE "pending"

\* The states of the promises in replayPromises, given the states st by url.
PromiseStates(i, st) ==
  [k \in 1..Len(replayPromises[i]) |-> st[replayPromises[i][k]]]

\* Variant of Join: the chain has no catch after Promise.all, so a rejection
\* ends the invocation without any toast.
JoinNoCatch(i, st) ==
  LET all == PromiseAll(PromiseStates(i, st)) IN
  /\ pc' = [pc EXCEPT ![i] = IF all = "pending" THEN "joining" ELSE "done"]
  /\ toasts' = [toasts EXCEPT ![i] =
                  IF all = "fulfilled" THEN Append(@, SUCCESS_MSG) ELSE @]
  /\ returned' = [returned EXCEPT ![i] =
                    IF all = "fulfilled" THEN "fulfilled"
                    ELSE IF all = "rejected" THEN "rejected" ELSE @]

\* The reactions to Promise.all(replayPromises) once it exists, with the
\* replay promises in states st: the success toast when it is fulfilled,
\* the toast of the outer catch when it is rejected; either way
\* queuedSessionApiUpdates and the returned Promise.all([...]) are fulfilled.
Join(i, st) ==
  LET all == PromiseAll(PromiseStates(i, st)) IN
  /\ pc' = [pc EXCEPT ![i] = IF all = "pending" THEN "joining" ELSE "done"]
  /\ toasts' = [toasts EXCEPT ![i] =
                  IF all = "fulfilled" THEN Append(@, SUCCESS_MSG)
                  ELSE IF all = "rejected" THEN Append(@, FAILURE_MSG)
                  ELSE @]
  /\ returned' = [returned EXCEPT ![i] =
                    IF all = "pending" THEN @ ELSE "fulfilled"]

\* An invocation that is over and has no request or delete left pending.
Quiesced(i) ==
  /\ pc[i] = "done"
  /\ \A u \in Urls : rp[i][u] \notin Pending

\* ------------------------------------------------------------- actions
\* Variant of replayQueuedRequests: the capability gate is missing.
replayQueuedRequestsUngated(i) ==
  /\ pc[i] = "idle"
  /\ pc' = [pc EXCEPT ![i] = "opening"]
  /\ opened' = [opened EXCEPT ![i] = "pending"]
  /\ returned' = [returned EXCEPT ![i] = "pending"]
  /\ UNCHANGED <<serviceWorker, stores, cursor, replayPromises, rp, requests,
                 toasts, clearState>>
  /\ UNCHANGED nonReplayVars

\* replayQueuedRequests(): the capability gate and simpleDB.open(...).
replayQueuedRequests(i) ==
  /\ pc[i] = "idle"
  /\ IF serviceWorker
       THEN /\ pc' = [pc EXCEPT ![i] = "opening"]
            /\ opened' = [opened EXCEPT ![i] = "pending"]
            /\ returned' = [returned EXCEPT ![i] = "pending"]
       ELSE /\ pc' = [pc EXCEPT ![i] = "done"]
            /\ returned' = [returned EXCEPT ![i] = "fulfilled"]
            /\ UNCHANGED opened
  /\ UNCHANGED <<serviceWorker, stores, cursor, replayPromises, rp, requests,
                 toasts, clearState>>
  /\ UNCHANGED nonReplayVars

\* Variant of OpenFail: the catch does not cover simpleDB.open, so the
\* rejection reaches the returned promise and no toast is shown.
OpenFailUncaught(i) ==
  /\ pc[i] = "opening"
  /\ opened' = [opened EXCEPT ![i] = "failed"]
  /\ pc' = [pc EXCEPT ![i] = "done"]
  /\ returned' = [returned EXCEPT ![i] = "rejected"]
  /\ UNCHANGED <<serviceWorker, stores, cursor, replayPromises, rp, requests,
                 toasts, clearState>>
  /\ UNCHANGED nonReplayVars

\* simpleDB.open rejects: the outer catch shows the failure toast.
OpenFail(i) ==
  /\ pc[i] = "opening"
  /\ opened' = [opened EXCEPT ![i] = "failed"]
  /\ toasts' = [toasts EXCEPT ![i] = Append(@, FAILURE_MSG)]
  /\ pc' = [pc EXCEPT ![i] = "done"]
  /\ returned' = [returned EXCEPT ![i] = "fulfilled"]
  /\ UNCHANGED <<serviceWorker, stores, cursor, replayPromises, rp, requests,
                 clearState>>
  /\ UNCHANGED nonReplayVars

\* simpleDB.open fulfils: replayPromises = [] and db.forEach starts reading
\* the store.
OpenOk(i) ==
  /\ pc[i] = "opening"
  /\ opened' = [opened EXCEPT ![i] = "ok"]
  /\ cursor' = [cursor EXCEPT ![i] = queue]
  /\ replayPromises' = [replayPromises EXCEPT ![i] = <<>>]
  /\ pc' = [pc EXCEPT ![i] = "iterating"]
  /\ UNCHANGED <<serviceWorker, stores, rp, requests, toasts, returned,
                 clearState>>
  /\ UNCHANGED nonReplayVars

Visited(i) == {replayPromises[i][k] : k \in 1..Len(replayPromises[i])}
ToVisit(i) == (DOMAIN cursor[i]) \ Visited(i)

\* Variant of ForEachVisit: the entries are replayed one after the other,
\* the next request waiting for the previous replayPromise to settle.
ForEachVisitSequential(i) ==
  /\ pc[i] = "iterating"
  /\ ToVisit(i) # {}
  /\ \A v \in Urls : rp[i][v] \notin Pending
  /\ LET u == CHOOSE x \in ToVisit(i) : \A y \in ToVisit(i) : x <= y IN
       /\ requests' = [requests EXCEPT ![i] =
                         @ \cup {[method |-> cursor[i][u], url |-> u]}]
       /\ rp' = [rp EXCEPT ![i][u] = "inflight"]
       /\ replayPromises' = [replayPromises EXCEPT ![i] = Append(@, u)]
  /\ UNCHANGED <<serviceWorker, stores, pc, opened, cursor, toasts, returned,
                 clearState>>
  /\ UNCHANGED nonReplayVars

\* The forEach callback for the next entry (in key order): the request is
\* issued and its replayPromise pushed.
ForEachVisit(i) ==
  /\ pc[i] = "iterating"
  /\ ToVisit(i) # {}
  /\ LET u == CHOOSE x \in ToVisit(i) : \A y \in ToVisit(i) : x <= y IN
       /\ requests' = [requests EXCEPT ![i] =
                         @ \cup {[method |-> cursor[i][u], url |-> u]}]
       /\ rp' = [rp EXCEPT ![i][u] = "inflight"]
       /\ replayPromises' = [replayPromises EXCEPT ![i] = Append(@, u)]
  /\ UNCHANGED <<serviceWorker, stores, pc, opened, cursor, toasts, returned,
                 clearState>>
  /\ UNCHANGED nonReplayVars

\* Variant of ForEachDone: the replayPromises.length test is missing, and
\* Promise.all([]) is fulfilled at once.
ForEachDoneUnchecked(i) ==
  /\ pc[i] = "iterating"
  /\ ToVisit(i) = {}
  /\ Join(i, rp[i])
  /\ UNCHANGED <<serviceWorker, stores, opened, cursor, replayPromises, rp,
                 requests, clearState>>
  /\ UNCHANGED nonReplayVars

\* db.forEach fulfils: with no replayPromises the chain ends silently,
\* otherwise Promise.all(replayPromises) is created.
\* (A store that cannot be read is the OpenFail case: the cursor of an opened
\* store is taken to reach its end.)
ForEachDone(i) ==
  /\ pc[i] = "iterating"
  /\ ToVisit(i) = {}
  /\ IF Len(replayPromises[i]) # 0
       THEN Join(i, rp[i])
       ELSE /\ pc' = [pc EXCEPT ![i] = "done"]
            /\ returned' = [returned EXCEPT ![i] = "fulfilled"]
            /\ UNCHANGED toasts
  /\ UNCHANGED <<serviceWorker, stores, opened, cursor, replayPromises, rp,
                 requests, clearState>>
  /\ UNCHANGED nonReplayVars

\* The effect of a replayPromise settling on the rest of the chain.
Settled(i, st) ==
  IF pc[i] = "joining" THEN Join(i, st) ELSE UNCHANGED <<pc, toasts, returned>>

\* Variant of XhrOk: the replayPromise is fulfilled without db.delete(url).
XhrOkNoDelete(i, u) ==
  /\ rp[i][u] = "inflight"
  /\ rp' = [rp EXCEPT ![i][u] = "ok"]
  /\ Settled(i, rp'[i])
  /\ UNCHANGED <<serviceWorker, stores, opened, cursor, replayPromises,
                 requests, clearState>>
  /\ UNCHANGED nonReplayVars

\* The request for url u succeeds: db.delete(url) is issued.
XhrOk(i, u) ==
  /\ rp[i][u] = "inflight"
  /\ rp' = [rp EXCEPT ![i][u] = "deleting"]
  /\ UNCHANGED <<serviceWorker, stores, pc, opened, cursor, replayPromises,
                 requests, toasts, returned, clearState>>
  /\ UNCHANGED nonReplayVars

\* Variant of XhrFail: every replayPromise has a catch of its own that shows
\* the failure toast before the rejection goes on to Promise.all.
XhrFailOwnToast(i, u) ==
  /\ rp[i][u] = "inflight"
  /\ rp' = [rp EXCEPT ![i][u] = "reqfail"]
  /\ IF pc[i] = "joining"
       THEN /\ pc' = [pc EXCEPT ![i] = "done"]
            /\ toasts' = [toasts EXCEPT ![i] = Append(Append(@, FAILURE_MSG), FAILURE_MSG)]
            /\ returned' = [returned EXCEPT ![i] = "fulfilled"]
       ELSE /\ toasts' = [toasts EXCEPT ![i] = Append(@, FAILURE_MSG)]
            /\ UNCHANGED <<pc, returned>>
  /\ UNCHANGED <<serviceWorker, stores, opened, cursor, replayPromises,
                 requests, clearState>>
  /\ UNCHANGED nonReplayVars

\* The request for url u fails: its replayPromise is rejected.
XhrFail(i, u) ==
  /\ rp[i][u] = "inflight"
  /\ rp' = [rp EXCEPT ![i][u] = "reqfail"]
  /\ Settled(i, rp'[i])
  /\ UNCHANGED <<serviceWorker, stores, opened, cursor, replayPromises,
                 requests, clearState>>
  /\ UNCHANGED nonReplayVars

\* Variant of DeleteOk: the delete writes back the entries this invocation
\* read, less the deleted one, instead of removing one key from the store.
DeleteOkFromSnapshot(i, u) ==
  /\ rp[i][u] = "deleting"
  /\ stores' = [stores EXCEPT ![QUEUED_SESSION_API_UPDATES_DB_NAME] =
                  DbDelete(cursor[i], u)]
  /\ rp' = [rp EXCEPT ![i][u] = "ok"]
  /\ Settled(i, rp'[i])
  /\ UNCHANGED <<serviceWorker, opened, cursor, replayPromises, requests,
                 clearState>>
  /\ UNCHANGED nonReplayVars

\* db.delete(url) succeeds: the entry is gone, the replayPromise fulfilled.
DeleteOk(i, u) ==
  /\ rp[i][u] = "deleting"
  /\ stores' = [stores EXCEPT ![QUEUED_SESSION_API_UPDATES_DB_NAME] = DbDelete(@, u)]
  /\ rp' = [rp EXCEPT ![i][u] = "ok"]
  /\ Settled(i, rp'[i])
  /\ UNCHANGED <<serviceWorker, opened, cursor, replayPromises, requests,
                 clearState>>
  /\ UNCHANGED nonReplayVars

\* db.delete(url) fails: the entry stays, the replayPromise is rejected.
DeleteFail(i, u) ==
  /\ rp[i][u] = "deleting"
  /\ rp' = [rp EXCEPT ![i][u] = "delfail"]
  /\ Settled(i, rp'[i])
  /\ UNCHANGED <<serviceWorker, stores, opened, cursor, replayPromises,
                 requests, clearState>>
  /\ UNCHANGED nonReplayVars

\* Schedule.clearQueuedRequests(): simpleDB.delete(name) is issued.
clearQueuedRequests ==
  /\ clearState # "pending"
  /\ clearState' = "pending"
  /\ UNCHANGED <<serviceWorker, stores, pc, opened, cursor, replayPromises,
                 rp, requests, toasts, returned>>
  /\ UNCHANGED nonReplayVars

\* The database clearQueuedRequests names is deleted.
ClearOk ==
  /\ clearState = "pending"
  /\ stores' = [stores EXCEPT ![StaticGet("QUEUED_SESSION_UPDATES_DB_NAME")] = EmptyQueue]
  /\ clearState' = "fulfilled"
  /\ UNCHANGED <<serviceWorker, pc, opened, cursor, replayPromises, rp,
                 requests, toasts, returned>>
  /\ UNCHANGED nonReplayVars

\* The deletion fails and the returned promise is rejected.
ClearFail ==
  /\ clearState = "pending"
  /\ clearState' = "rejected"
  /\ UNCHANGED <<serviceWorker, stores, pc, opened, cursor, replayPromises,
                 rp, requests, toasts, returned>>
  /\ UNCHANGED nonReplayVars

\* Invocations follow one another: the caller invokes the replay once per
\* sign-in, after the previous replay has run to its end.
SerialReplay(i) ==
  /\ \A j \in Invs : j < i => Quiesced(j)
  /\ replayQueuedRequests(i)

Next ==
  \/ \E i \in Invs : SerialReplay(i)
  \/ \E i \in Invs : OpenFail(i)
  \/ \E i \in Invs : OpenOk(i)
  \/ \E i \in Invs : ForEachVisit(i)
  \/ \E i \in Invs : ForEachDone(i)
  \/ \E i \in Invs, u \in Urls : XhrOk(i, u)
  \/ \E i \in Invs, u \in Urls : XhrFail(i, u)
  \/ \E i \in Invs, u \in Urls : DeleteOk(i, u)
  \/ \E i \in Invs, u \in Urls : DeleteFail(i, u)
  \/ clearQueuedRequests
  \/ ClearOk
  \/ ClearFail

Spec == Init /\ [][Next]_vars

\* ------------------------------------------- repeated invocation, fairness
\* The caller drops a finished invocation; its record serves the next call.
Forget(i) ==
  /\ Quiesced(i)
  /\ pc' = [pc EXCEPT ![i] = "idle"]
  /\ opened' = [opened EXCEPT ![i] = "none"]
  /\ cursor' = [cursor EXCEPT ![i] = EmptyQueue]
  /\ replayPromises' = [replayPromises EXCEPT ![i] = <<>>]
  /\ rp' = [rp EXCEPT ![i] = [u \in Urls |-> "none"]]
  /\ requests' = [requests EXCEPT ![i] = {}]
  /\ toasts' = [toasts EXCEPT ![i] = <<>>]
  /\ returned' = [returned EXCEPT ![i] = "none"]
  /\ UNCHANGED <<serviceWorker, stores, clearState>>
  /\ UNCHANGED nonReplayVars

\* replayQueuedRequests is called again and again, each time after the
\* previous replay has run to its end.
RepeatedReplay(i) ==
  /\ \A j \in Invs : j # i => pc[j] = "idle" \/ Quiesced(j)
  /\ replayQueuedRequests(i)

\* The outcomes of the three asynchronous operations.
OpenSettles(i) == OpenOk(i) \/ OpenFail(i)
XhrSettles(i, u) == XhrOk(i, u) \/ XhrFail(i, u)
DeleteSettles(i, u) == DeleteOk(i, u) \/ DeleteFail(i, u)

\* A store open, a request or a delete fails.
Failure ==
  \E i \in Invs :
    \/ OpenFail(i)
    \/ \E u \in Urls : XhrFail(i, u) \/ DeleteFail(i, u)

NextLive ==
  \/ \E i \in LiveInvs : RepeatedReplay(i)
  \/ \E i \in LiveInvs : Forget(i)
  \/ \E i \in LiveInvs : OpenFail(i)
  \/ \E i \in LiveInvs : OpenOk(i)
  \/ \E i \in LiveInvs : ForEachVisit(i)
  \/ \E i \in LiveInvs : ForEachDone(i)
  \/ \E i \in LiveInvs, u \in Urls : XhrOk(i, u)
  \/ \E i \in LiveInvs, u \in Urls : XhrFail(i, u)
  \/ \E i \in LiveInvs, u \in Urls : DeleteOk(i, u)
  \/ \E i \in LiveInvs, u \in Urls : DeleteFail(i, u)

\* The event loop runs every task that is ready, and the store settles every
\* open and delete.
FairLoop ==
  \A i \in LiveInvs :
    /\ WF_vars(RepeatedReplay(i))
    /\ WF_vars(Forget(i))
    /\ WF_vars(OpenSettles(i))
    /\ WF_vars(ForEachVisit(i))
    /\ WF_vars(ForEachDone(i))
    /\ \A u \in Urls : WF_vars(DeleteSettles(i, u))

\* Every request settles, one way or the other.
SpecLive ==
  /\ Init /\ [][NextLive]_vars
  /\ FairLoop
  /\ \A i \in LiveInvs, u \in Urls : WF_vars(XhrSettles(i, u))

\* The request for HungUrl may stay pending for ever; the others settle.
HungUrl == 1
SpecHang ==
  /\ Init /\ [][NextLive]_vars
  /\ FairLoop
  /\ \A i \in LiveInvs, u \in Urls \ {HungUrl} : WF_vars(XhrSettles(i, u))

\* ------------------------------------------------ overlapping invocations
\* The two invocations of an overlap: the second may be called at any time,
\* whatever the first is doing.
OverlapInvs == {1, 2}

NextOverlap ==
  \/ \E i \in OverlapInvs : replayQueuedRequests(i)
  \/ \E i \in OverlapInvs : OpenFail(i)
  \/ \E i \in OverlapInvs : OpenOk(i)
  \/ \E i \in OverlapInvs : ForEachVisit(i)
  \/ \E i \in OverlapInvs : ForEachDone(i)
  \/ \E i \in OverlapInvs, u \in Urls : XhrOk(i, u)
  \/ \E i \in OverlapInvs, u \in Urls : XhrFail(i, u)
  \/ \E i \in OverlapInvs, u \in Urls : DeleteOk(i, u)
  \/ \E i \in OverlapInvs, u \in Urls : DeleteFail(i, u)

SpecOverlap == Init /\ [][NextOverlap]_vars

\* ------------------------------------------------- the master schedule
\* createScheduleDeferred_(): a new deferred, whose resolver and whose
\* promise (chained with the then of lines 73-83) the schedule keeps.
createScheduleDeferred_ ==
  /\ created' = created + 1
  /\ resolverId' = created + 1
  /\ promiseId' = created + 1

NotRun == [ran |-> FALSE, value |-> NULL, data |-> NULL]

\* Variant of schedulePromise: the test of this.scheduleDeferredPromise is
\* missing, every call makes a deferred of its own.
schedulePromiseAlwaysCreates ==
  /\ Len(handed) < MaxCalls
  /\ createScheduleDeferred_
  /\ handed' = Append(handed, promiseId')
  /\ seen' = Append(seen, NotRun)
  /\ UNCHANGED <<scheduleData_, raw, derived, resolveCalls, fetches, loadPc,
                 loadHanded, signIn, fetchingUserData, sessionListener,
                 feedbackListener>>
  /\ UNCHANGED <<replayVars, submitVars, sessionVars>>

\* schedulePromise(): a caller is handed this.scheduleDeferredPromise, made
\* first if there is none; the caller attaches its continuation.
schedulePromise ==
  /\ Len(handed) < MaxCalls
  /\ IF promiseId = NULL
       THEN createScheduleDeferred_
       ELSE UNCHANGED <<created, resolverId, promiseId>>
  /\ handed' = Append(handed, promiseId')
  /\ seen' = Append(seen, NotRun)
  /\ UNCHANGED <<scheduleData_, raw, derived, resolveCalls, fetches, loadPc,
                 loadHanded, signIn, fetchingUserData, sessionListener,
                 feedbackListener>>
  /\ UNCHANGED <<replayVars, submitVars, sessionVars>>

\* resolveSchedulePromise(data): the resolver is called, the deferred made
\* first if there is none; resolving a resolved promise does nothing.
resolveSchedulePromise(data) ==
  /\ resolveCalls < MaxCalls
  /\ resolveCalls' = resolveCalls + 1
  /\ IF resolverId = NULL
       THEN createScheduleDeferred_
       ELSE UNCHANGED <<created, resolverId, promiseId>>
  /\ raw' = IF raw[resolverId'] = NoPayload
              THEN [raw EXCEPT ![resolverId'] = data]
              ELSE raw
  /\ UNCHANGED <<scheduleData_, derived, handed, seen, fetches, loadPc,
                 loadHanded, signIn, fetchingUserData, sessionListener,
                 feedbackListener>>
  /\ UNCHANGED <<replayVars, submitVars, sessionVars>>

\* The then of createScheduleDeferred_ runs on the resolved deferred d:
\* this.scheduleData_ = data.scheduleData, and scheduleDeferredPromise is
\* fulfilled with this.scheduleData_.
DeferredThen(d) ==
  /\ raw[d] # NoPayload
  /\ derived[d] = NULL
  /\ scheduleData_' = raw[d].scheduleData
  /\ derived' = [derived EXCEPT ![d] = scheduleData_']
  /\ UNCHANGED <<raw, promiseId, resolverId, created, resolveCalls, handed,
                 seen, fetches, loadPc, loadHanded, signIn, fetchingUserData,
                 sessionListener, feedbackListener>>
  /\ UNCHANGED <<replayVars, submitVars, sessionVars>>

\* The continuation of the k-th schedulePromise() caller runs once the
\* promise it was handed is fulfilled; it observes the promise's value (and
\* this.scheduleData_ as it is then).
ConsumerRuns(k) ==
  /\ ~seen[k].ran
  /\ derived[handed[k]] # NULL
  /\ seen' = [seen EXCEPT ![k] =
                [ran |-> TRUE, value |-> derived[handed[k]], data |-> scheduleData_]]
  /\ UNCHANGED <<scheduleData_, raw, derived, promiseId, resolverId, created,
                 resolveCalls, handed, fetches, loadPc, loadHanded, signIn,
                 fetchingUserData, sessionListener, feedbackListener>>
  /\ UNCHANGED <<replayVars, submitVars, sessionVars>>

\* Variant of fetchSchedule: the test of this.scheduleData_ is missing, a
\* request is issued by every call.
fetchScheduleAlways ==
  /\ Len(fetches) < MaxCalls
  /\ fetches' = Append(fetches, [req |-> TRUE, state |-> "pending", value |-> NULL])
  /\ UNCHANGED <<scheduleData_, raw, derived, promiseId, resolverId, created,
                 resolveCalls, handed, seen, loadPc, loadHanded, signIn,
                 fetchingUserData, sessionListener, feedbackListener>>
  /\ UNCHANGED <<replayVars, submitVars, sessionVars>>

\* fetchSchedule(): Promise.resolve(this.scheduleData_) when the data is
\* there, otherwise xhrPromise('GET', SCHEDULE_ENDPOINT, false).
fetchSchedule ==
  /\ Len(fetches) < MaxCalls
  /\ fetches' = Append(fetches,
       IF Truthy(scheduleData_)
         THEN [req |-> FALSE, state |-> "fulfilled", value |-> scheduleData_]
         ELSE [req |-> TRUE, state |-> "pending", value |-> NULL])
  /\ UNCHANGED <<scheduleData_, raw, derived, promiseId, resolverId, created,
                 resolveCalls, handed, seen, loadPc, loadHanded, signIn,
                 fetchingUserData, sessionListener, feedbackListener>>
  /\ UNCHANGED <<replayVars, submitVars, sessionVars>>

\* The request of the k-th fetchSchedule() is answered with resp:
\* this.scheduleData_ = resp.
FetchResponse(k, resp) ==
  /\ fetches[k].state = "pending"
  /\ scheduleData_' = resp
  /\ fetches' = [fetches EXCEPT ![k] =
                   [req |-> TRUE, state |-> "fulfilled", value |-> scheduleData_']]
  /\ UNCHANGED <<raw, derived, promiseId, resolverId, created, resolveCalls,
                 handed, seen, loadPc, loadHanded, signIn, fetchingUserData,
                 sessionListener, feedbackListener>>
  /\ UNCHANGED <<replayVars, submitVars, sessionVars>>

\* The request of the k-th fetchSchedule() fails.
FetchFails(k) ==
  /\ fetches[k].state = "pending"
  /\ fetches' = [fetches EXCEPT ![k].state = "rejected"]
  /\ UNCHANGED <<scheduleData_, raw, derived, promiseId, resolverId, created,
                 resolveCalls, handed, seen, loadPc, loadHanded, signIn,
                 fetchingUserData, sessionListener, feedbackListener>>
  /\ UNCHANGED <<replayVars, submitVars, sessionVars>>

\* loadUserSchedule(): this.schedulePromise().then(...).
loadUserSchedule ==
  /\ loadPc = "idle"
  /\ IF promiseId = NULL
       THEN createScheduleDeferred_
       ELSE UNCHANGED <<created, resolverId, promiseId>>
  /\ loadHanded' = promiseId'
  /\ loadPc' = "waitSchedule"
  /\ UNCHANGED <<scheduleData_, raw, derived, resolveCalls, handed, seen,
                 fetches, signIn, fetchingUserData, sessionListener,
                 feedbackListener>>
  /\ UNCHANGED <<replayVars, submitVars, sessionVars>>

\* Variant of LoadScheduleLoaded: the listeners are registered as soon as the
\* schedule is there, outside the then of waitForSignedIn.
LoadScheduleLoadedRegisters ==
  /\ loadPc = "waitSchedule"
  /\ derived[loadHanded] # NULL
  /\ fetchingUserData' = TRUE
  /\ signIn' = "pending"
  /\ sessionListener' = TRUE
  /\ feedbackListener' = TRUE
  /\ loadPc' = "waitSignIn"
  /\ UNCHANGED <<scheduleData_, raw, derived, promiseId, resolverId, created,
                 resolveCalls, handed, seen, fetches, loadHanded>>
  /\ UNCHANGED <<replayVars, submitVars, sessionVars>>

\* The then of loadUserSchedule runs, the schedule promise being fulfilled:
\* app.scheduleFetchingUserData = true and waitForSignedIn(...) is called.
LoadScheduleLoaded ==
  /\ loadPc = "waitSchedule"
  /\ derived[loadHanded] # NULL
  /\ fetchingUserData' = TRUE
  /\ signIn' = "pending"
  /\ loadPc' = "waitSignIn"
  /\ UNCHANGED <<scheduleData_, raw, derived, promiseId, resolverId, created,
                 resolveCalls, handed, seen, fetches, loadHanded,
                 sessionListener, feedbackListener>>
  /\ UNCHANGED <<replayVars, submitVars, sessionVars>>

\* waitForSignedIn resolves: registerToSessionUpdates and
\* registerToFeedbackUpdates are called.
SignedIn ==
  /\ signIn = "pending"
  /\ signIn' = "resolved"
  /\ sessionListener' = TRUE
  /\ feedbackListener' = TRUE
  /\ loadPc' = "registered"
  /\ UNCHANGED <<scheduleData_, raw, derived, promiseId, resolverId, created,
                 resolveCalls, handed, seen, fetches, loadHanded,
                 fetchingUserData>>
  /\ UNCHANGED <<replayVars, submitVars, sessionVars>>

\* waitForSignedIn rejects (the user does not sign in): nothing follows.
SignInRefused ==
  /\ signIn = "pending"
  /\ signIn' = "rejected"
  /\ loadPc' = "refused"
  /\ UNCHANGED <<scheduleData_, raw, derived, promiseId, resolverId, created,
                 resolveCalls, handed, seen, fetches, loadHanded,
                 fetchingUserData, sessionListener, feedbackListener>>
  /\ UNCHANGED <<replayVars, submitVars, sessionVars>>

NextSchedule ==
  \/ schedulePromise
  \/ \E data \in Payloads : resolveSchedulePromise(data)
  \/ \E d \in DeferredIds : DeferredThen(d)
  \/ \E k \in 1..Len(handed) : ConsumerRuns(k)
  \/ fetchSchedule
  \/ \E k \in 1..Len(fetches), resp \in Datas : FetchResponse(k, resp)
  \/ \E k \in 1..Len(fetches) : FetchFails(k)
  \/ loadUserSchedule
  \/ LoadScheduleLoaded
  \/ SignedIn
  \/ SignInRefused

\* The schedule on its own: nothing is queued and no replay is running.
InitSchedule == Init /\ serviceWorker /\ queue = EmptyQueue

SpecSchedule == InitSchedule /\ [][NextSchedule]_vars

\* ------------------------------------------------- submitSessionRequest
RETRY_SUFFIX == " The change will be retried on your next visit."
\* The errorMsg saveSurvey passes.
SURVEY_ERROR_MSG == "Unable to save feedback results."

\* What xhrPromise rejects with: the error event of a network error, or an
\* Error object.
RequestErrors == {"event", "error"}

\* error instanceof XMLHttpRequestProgressEvent, in a runtime that defines
\* that class: its XHR error events are instances of it.
IsXhrProgressEvent(error) == error = "event"

NewSubmit(throws) ==
  [ callbackThrows |-> throws, state |-> "pending", outcome |-> "none",
    response |-> NULL, callbackArgs |-> <<>>, toasts |-> <<>>,
    reason |-> "none" ]

\* The catch handler of submitSessionRequest for error, on the record r of
\* a call. Evaluating the identifier XMLHttpRequestProgressEvent where no
\* such global is defined throws a ReferenceError: the handler ends there,
\* before any toast, and the promise is rejected with the ReferenceError.
SubmitCatch(r, error) ==
  IF serviceWorker /\ ~xhrProgressEvent
    THEN [r EXCEPT !.state = "rejected", !.reason = "ReferenceError"]
  ELSE IF serviceWorker /\ xhrProgressEvent /\ IsXhrProgressEvent(error)
    THEN [r EXCEPT !.state = "rejected", !.reason = error,
                   !.toasts = Append(@, SURVEY_ERROR_MSG \o RETRY_SUFFIX)]
  ELSE [r EXCEPT !.state = "rejected", !.reason = error,
                 !.toasts = Append(@, SURVEY_ERROR_MSG)]

\* submitSessionRequest(url, method, payload, errorMsg, callback): the
\* request is issued; the callback given may be one that throws.
submitSessionRequest(throws) ==
  /\ Len(submits) < MaxCalls
  /\ submits' = Append(submits, NewSubmit(throws))
  /\ UNCHANGED <<xhrProgressEvent, replayVars, scheduleVars, sessionVars>>

\* The request succeeds with resp: then(callback) runs the callback; when
\* the callback throws, the catch after it handles that error.
SubmitResponse(k, resp) ==
  /\ submits[k].state = "pending"
  /\ LET called == [submits[k] EXCEPT !.outcome = "ok", !.response = resp,
                                      !.callbackArgs = Append(@, resp)] IN
       submits' = [submits EXCEPT ![k] =
                     IF called.callbackThrows
                       THEN SubmitCatch(called, "callbackError")
                       ELSE [called EXCEPT !.state = "fulfilled"]]
  /\ UNCHANGED <<xhrProgressEvent, replayVars, scheduleVars, sessionVars>>

\* The request fails with error: then(callback) is skipped, the catch runs.
SubmitFails(k, error) ==
  /\ submits[k].state = "pending"
  /\ submits' = [submits EXCEPT ![k] =
                   SubmitCatch([submits[k] EXCEPT !.outcome = error], error)]
  /\ UNCHANGED <<xhrProgressEvent, replayVars, scheduleVars, sessionVars>>

NextSubmit ==
  \/ \E throws \in BOOLEAN : submitSessionRequest(throws)
  \/ \E k \in 1..Len(submits), resp \in Datas : SubmitResponse(k, resp)
  \/ \E k \in 1..Len(submits), error \in RequestErrors : SubmitFails(k, error)

\* Any runtime: with or without service workers, with or without the global
\* XMLHttpRequestProgressEvent.
InitSubmit ==
  /\ InitReplay /\ queue = EmptyQueue
  /\ InitConstructed
  /\ xhrProgressEvent \in BOOLEAN

SpecSubmit == InitSubmit /\ [][NextSubmit]_vars

\* ------------------------------------------- the session-update callback
Range(seq) == {seq[k] : k \in 1..Len(seq)}

\* Array.prototype.indexOf: the first (0-based) index of x, or -1.
IndexOf(seq, x) ==
  IF x \in Range(seq)
    THEN (CHOOSE k \in 1..Len(seq) :
            seq[k] = x /\ \A j \in 1..(k - 1) : seq[j] # x) - 1
    ELSE -1

\* splice(index, 1) on a 0-based index of the list.
Splice1(seq, index) == SubSeq(seq, 1, index) \o SubSeq(seq, index + 2, Len(seq))

\* The data of an update: null, or an object with bookmarked true or false.
UpdateData == {"null", "bookmarked", "notBookmarked"}

\* Variant of SessionUpdate: the add branch does not test whether the
\* session is in the list already.
SessionUpdateNoTest(sessionId, data) ==
  /\ sessionListener
  /\ lastUpdate' = [sessionId |-> sessionId, data |-> data]
  /\ fetchingUserData' = FALSE
  /\ LET savedSessionsListIndex == IndexOf(savedSessions, sessionId) IN
       savedSessions' =
         IF data # "null" /\ data = "bookmarked"
           THEN Append(savedSessions, sessionId)
         ELSE IF data # "null" /\ data # "bookmarked" /\ savedSessionsListIndex # -1
           THEN Splice1(savedSessions, savedSessionsListIndex)
         ELSE savedSessions
  /\ UNCHANGED <<scheduleData_, raw, derived, promiseId, resolverId, created,
                 resolveCalls, handed, seen, fetches, loadPc, loadHanded,
                 signIn, sessionListener, feedbackListener>>
  /\ UNCHANGED <<replayVars, submitVars>>

\* The callback given to registerToSessionUpdates runs for (sessionId, data).
\* (The saved flag it also sets on the session of app.scheduleData is not
\* part of the state here.)
SessionUpdate(sessionId, data) ==
  /\ sessionListener
  /\ lastUpdate' = [sessionId |-> sessionId, data |-> data]
  /\ fetchingUserData' = FALSE
  /\ LET savedSessionsListIndex == IndexOf(savedSessions, sessionId) IN
       savedSessions' =
         IF data # "null" /\ data = "bookmarked"
              /\ IndexOf(savedSessions, sessionId) = -1
           THEN Append(savedSessions, sessionId)
         ELSE IF data # "null" /\ data # "bookmarked" /\ savedSessionsListIndex # -1
           THEN Splice1(savedSessions, savedSessionsListIndex)
         ELSE savedSessions
  /\ UNCHANGED <<scheduleData_, raw, derived, promiseId, resolverId, created,
                 resolveCalls, handed, seen, fetches, loadPc, loadHanded,
                 signIn, sessionListener, feedbackListener>>
  /\ UNCHANGED <<replayVars, submitVars>>

NextSessions ==
  \E sessionId \in SessionIds, data \in UpdateData : SessionUpdate(sessionId, data)

NoDuplicates(seq) == \A j, k \in 1..Len(seq) : seq[j] = seq[k] => j = k

\* loadUserSchedule has registered the listeners (the schedule is loaded, the
\* user signed in) and app.savedSessions is some duplicate-free list.
InitSessions ==
  /\ InitReplay /\ serviceWorker /\ queue = EmptyQueue
  /\ xhrProgressEvent = FALSE
  /\ scheduleData_ = 1
  /\ raw = [d \in DeferredIds |->
              IF d = 1 THEN [scheduleData |-> 1, tags |-> "tags"] ELSE NoPayload]
  /\ derived = [d \in DeferredIds |-> IF d = 1 THEN 1 ELSE NULL]
  /\ promiseId = 1
  /\ resolverId = 1
  /\ created = 1
  /\ resolveCalls = 1
  /\ handed = <<>>
  /\ seen = <<>>
  /\ fetches = <<>>
  /\ loadPc = "registered"
  /\ loadHanded = 1
  /\ signIn = "resolved"
  /\ fetchingUserData = TRUE
  /\ sessionListener = TRUE
  /\ feedbackListener = TRUE
  /\ submits = <<>>
  /\ savedSessions \in {q \in UNION {[1..n -> SessionIds] : n \in 0..MaxSessions} :
                          NoDuplicates(q)}
  /\ lastUpdate = [sessionId |-> NULL, data |-> "none"]

SpecSessions == InitSessions /\ [][NextSessions]_vars

\* ------------------------------------------------------------ properties
\* No invocation after i has been started.
Latest(i) == \A j \in Invs : j > i => pc[j] = "idle"

\* The store was opened, forEach is over and every replay attempt of
\* invocation i has settled.
AllSettled(i) ==
  /\ opened[i] = "ok"
  /\ pc[i] = "done"
  /\ \A u \in DOMAIN cursor[i] : rp[i][u] \in {"ok", "reqfail", "delfail"}

\* The entries of q whose url is in S.
Restrict(q, S) == [u \in (DOMAIN q) \cap S |-> q[u]]

\* C1 as stated: once every replay attempt of an invocation has settled, the
\* queue holds exactly the entries whose request failed, with their methods,
\* and none of the entries whose request succeeded.
C1_AsStated ==
  \A i \in Invs :
    AllSettled(i) /\ Latest(i) =>
      queue = Restrict(cursor[i], {u \in Urls : rp[i][u] = "reqfail"})

\* C1 amended: once every replay attempt of an invocation has settled, the
\* queue holds exactly the entries whose request failed or whose delete
\* failed, with their original methods, and none of the entries whose request
\* and delete both succeeded.
C1_RetainedExactlyFailed ==
  \A i \in Invs :
    AllSettled(i) /\ Latest(i) =>
      queue = Restrict(cursor[i], {u \in Urls : rp[i][u] \in Rejected})

\* The example of C1: {1 -> GET, 2 -> PUT}, 1 succeeded and 2 failed.
C1_Witness ==
  \E i \in Invs :
    /\ AllSettled(i) /\ Latest(i)
    /\ cursor[i] = (1 :> "GET" @@ 2 :> "PUT")
    /\ rp[i][1] = "ok" /\ rp[i][2] = "reqfail"
    /\ queue = (2 :> "PUT")

\* C2: a non-empty queue whose requests and deletes all succeed ends empty,
\* and the invocation has shown the success message once and nothing else.
C2_DrainOnSuccess ==
  \A i \in Invs :
    ( /\ AllSettled(i)
      /\ cursor[i] # EmptyQueue
      /\ \A u \in DOMAIN cursor[i] : rp[i][u] = "ok" )
    => /\ queue = EmptyQueue
       /\ toasts[i] = <<SUCCESS_MSG>>

C2_Witness ==
  \E i \in Invs :
    /\ AllSettled(i)
    /\ cursor[i] = (1 :> "GET" @@ 2 :> "PUT")
    /\ rp[i][1] = "ok" /\ rp[i][2] = "ok"
    /\ toasts[i] = <<SUCCESS_MSG>>

\* C3: when simpleDB.open fails, the invocation issues no request and no
\* delete, the step removes no queue entry, and the failure message is the
\* one notification shown.
C3_OpenFailure ==
  /\ [](\A i \in Invs :
          opened[i] = "failed" =>
            /\ requests[i] = {}
            /\ \A u \in Urls : rp[i][u] = "none"
            /\ toasts[i] = <<FAILURE_MSG>>)
  /\ [][\A i \in Invs :
          opened[i] # "failed" /\ opened'[i] = "failed" => stores' = stores]_vars

C3_Witness ==
  \E i \in Invs :
    /\ opened[i] = "failed"
    /\ queue # EmptyQueue
    /\ toasts[i] = <<FAILURE_MSG>>

\* C4 as stated: after clearQueuedRequests has succeeded, the queue store
\* that replayQueuedRequests opens is empty.
C4_AsStated ==
  clearState = "fulfilled" => stores[QUEUED_SESSION_API_UPDATES_DB_NAME] = EmptyQueue

\* C5 as stated: an invocation that read a non-empty queue shows its
\* notification only when none of its requests or deletes is still pending.
C5_AsStated ==
  \A i \in Invs :
    opened[i] = "ok" /\ toasts[i] # <<>> =>
      \A u \in DOMAIN cursor[i] : rp[i][u] \notin Pending

\* C6 as stated: with at least one replay succeeded and at least one failed,
\* the invocation shows the success message and not the failure message.
C6_AsStated ==
  \A i \in Invs :
    ( /\ opened[i] = "ok" /\ pc[i] = "done"
      /\ \E u \in Urls : rp[i][u] = "ok"
      /\ \E u \in Urls : rp[i][u] \in Rejected )
    => toasts[i] = <<SUCCESS_MSG>>

\* C6 amended: with at least one replay succeeded and at least one failed,
\* the invocation shows the failure message and not the success message.
C6_PartialFailureReportsFailure ==
  \A i \in Invs :
    ( /\ opened[i] = "ok" /\ pc[i] = "done"
      /\ \E u \in Urls : rp[i][u] = "ok"
      /\ \E u \in Urls : rp[i][u] \in Rejected )
    => toasts[i] = <<FAILURE_MSG>>

C6_Witness ==
  \E i \in Invs :
    /\ opened[i] = "ok" /\ pc[i] = "done"
    /\ rp[i][1] = "reqfail" /\ rp[i][2] = "ok"
    /\ toasts[i] = <<FAILURE_MSG>>

\* C7 as stated: every invocation that has completed has shown exactly one
\* notification.
C7_AsStated ==
  \A i \in Invs : pc[i] = "done" => Len(toasts[i]) = 1

\* C7 amended: a completed invocation has shown exactly one notification when
\* the runtime has service workers and the store failed to open or held at
\* least one entry, and none otherwise (no service worker, or an empty
\* queue); an invocation that has not completed has shown none.
C7_OneToastUnlessNothingToReplay ==
  \A i \in Invs :
    Len(toasts[i]) =
      IF /\ pc[i] = "done"
         /\ serviceWorker
         /\ (opened[i] = "failed" \/ cursor[i] # EmptyQueue)
      THEN 1 ELSE 0

C7_Witness ==
  /\ \E i \in Invs : pc[i] = "done" /\ opened[i] = "ok" /\ cursor[i] = EmptyQueue
                     /\ toasts[i] = <<>>
  /\ \E i \in Invs : pc[i] = "done" /\ cursor[i] # EmptyQueue /\ Len(toasts[i]) = 1

\* C8: an invocation shows at most one notification, however many of its
\* requests and deletes fail.
C8_AtMostOneToast ==
  \A i \in Invs : Len(toasts[i]) <= 1

C8_Witness ==
  \E i \in Invs :
    /\ rp[i][1] \in Rejected /\ rp[i][2] \in Rejected
    /\ toasts[i] = <<FAILURE_MSG>>

\* C9: an invocation that opened the store and found no entry issues no
\* request and shows no notification, and the queue is still empty.
C9_EmptyQueueIsSilent ==
  \A i \in Invs :
    opened[i] = "ok" /\ cursor[i] = EmptyQueue =>
      /\ requests[i] = {}
      /\ toasts[i] = <<>>
      /\ queue = EmptyQueue

C9_Witness ==
  \E i \in Invs :
    /\ opened[i] = "ok" /\ cursor[i] = EmptyQueue /\ pc[i] = "done"
    /\ returned[i] = "fulfilled"

\* C10: without service workers an invocation is over, with its promise
\* fulfilled, in the step that calls it; it never opens the store, issues a
\* request or shows a notification, and no step changes the queue.
C10_CapabilityGate ==
  /\ [](~serviceWorker =>
          \A i \in Invs :
            /\ pc[i] \in {"idle", "done"}
            /\ pc[i] = "done" => returned[i] = "fulfilled"
            /\ opened[i] = "none"
            /\ requests[i] = {}
            /\ toasts[i] = <<>>)
  /\ [][~serviceWorker => queue' = queue]_vars

C10_Witness ==
  /\ ~serviceWorker
  /\ queue # EmptyQueue
  /\ \E i \in Invs : pc[i] = "done" /\ returned[i] = "fulfilled"

\* C11 as stated: the returned promise is never rejected, and it is fulfilled
\* only when no request or delete of the invocation is still pending.
C11_AsStated ==
  \A i \in Invs :
    /\ returned[i] # "rejected"
    /\ returned[i] = "fulfilled" => \A u \in Urls : rp[i][u] \notin Pending

\* C12 as stated: once an invocation has settled, no entry whose replayed
\* request succeeded is left in the queue, also when its delete failed.
C12_AsStated ==
  \A i \in Invs :
    AllSettled(i) =>
      \A u \in DOMAIN cursor[i] :
        rp[i][u] \in {"ok", "delfail"} => u \notin DOMAIN queue

\* C12 amended: in every reachable state an entry whose replayed request and
\* delete both succeeded is not in the queue, and once an invocation has
\* settled every entry left in the queue is one whose request failed or
\* whose delete failed in that invocation.
C12_QueuedMeansNotRemoved ==
  \A i \in Invs :
    /\ \A u \in Urls : rp[i][u] = "ok" => u \notin DOMAIN queue
    /\ AllSettled(i) /\ Latest(i) =>
         \A u \in DOMAIN queue : rp[i][u] \in Rejected

\* A settled invocation with a removed entry and one that a failed delete
\* left in the queue.
C12_Witness ==
  \E i \in Invs :
    /\ AllSettled(i) /\ Latest(i)
    /\ rp[i][1] = "delfail" /\ rp[i][2] = "ok"
    /\ DOMAIN queue = {1}

\* C13: if replayQueuedRequests keeps being invoked on a runtime with service
\* workers and from some point on no store open, request or delete fails,
\* the queue eventually becomes empty.
C13_EventuallyDrained ==
  (serviceWorker /\ <>[][~Failure]_vars) => <>(queue = EmptyQueue)

\* An invocation found entries and, with every attempt succeeding, left the
\* queue empty.
C13_Witness ==
  \E i \in LiveInvs :
    /\ AllSettled(i)
    /\ cursor[i] # EmptyQueue
    /\ queue = EmptyQueue

BothOver ==
  \A i \in OverlapInvs :
    /\ pc[i] = "done"
    /\ opened[i] = "ok" => AllSettled(i)

\* C15 as stated: after two overlapping invocations the queue holds exactly
\* the entries whose request succeeded in neither, and when every request
\* succeeded, the store having opened for both, the queue is empty and
\* neither invocation shows the failure message.
C15_AsStated ==
  BothOver =>
    \A i \in OverlapInvs :
      opened[i] = "ok" =>
        /\ queue = Restrict(cursor[i],
                     {u \in Urls : \A j \in OverlapInvs : rp[j][u] \notin {"ok", "delfail"}})
        /\ ( /\ \A j \in OverlapInvs : opened[j] = "ok"
             /\ \A j \in OverlapInvs, u \in Urls : rp[j][u] # "reqfail" )
             => /\ queue = EmptyQueue
                /\ \A j \in OverlapInvs : toasts[j] # <<FAILURE_MSG>>

\* C15 amended: after two overlapping invocations the queue holds exactly
\* the entries for which no invocation had both its request and its delete
\* succeed, and when every request and every delete succeeded, the store
\* having opened for both, the queue is empty and neither invocation shows
\* the failure message.
C15_BenignRace ==
  BothOver =>
    \A i \in OverlapInvs :
      opened[i] = "ok" =>
        /\ queue = Restrict(cursor[i],
                     {u \in Urls : \A j \in OverlapInvs : rp[j][u] # "ok"})
        /\ ( /\ \A j \in OverlapInvs : opened[j] = "ok"
             /\ \A j \in OverlapInvs, u \in Urls : rp[j][u] \notin Rejected )
             => /\ queue = EmptyQueue
                /\ \A j \in OverlapInvs : toasts[j] # <<FAILURE_MSG>>

\* Both invocations read both entries and replayed them with success: each
\* entry was deleted twice, and both invocations show the success message.
C15_Witness ==
  /\ BothOver
  /\ \A i \in OverlapInvs :
       /\ cursor[i] = (1 :> "GET" @@ 2 :> "PUT")
       /\ rp[i][1] = "ok" /\ rp[i][2] = "ok"
       /\ toasts[i] = <<SUCCESS_MSG>>
  /\ queue = EmptyQueue

\* C16: a fetchSchedule call made once this.scheduleData_ is set issues no
\* request and resolves with the stored data (so a request is issued only
\* when the data is not loaded), and a schedulePromise call never issues a
\* request.
C16_FetchOnlyWhenNotLoaded ==
  [][ /\ (Truthy(scheduleData_) /\ Len(fetches') > Len(fetches)) =>
           fetches' = Append(fetches,
             [req |-> FALSE, state |-> "fulfilled", value |-> scheduleData_])
      /\ (Len(fetches') > Len(fetches) /\ fetches'[Len(fetches')].req) =>
           scheduleData_ = NULL
      /\ handed' # handed => fetches' = fetches ]_vars

\* The data came by a first fetchSchedule, the second call got the stored
\* data without a request; another behaviour has it from the deferred.
C16_Witness ==
  /\ Len(fetches) = 2
  /\ fetches[1].req /\ fetches[1].state = "fulfilled"
  /\ ~fetches[2].req /\ fetches[2].value = fetches[1].value
  /\ Len(handed) > 0

\* C17: the two listeners are registered together, and only when the
\* schedule promise loadUserSchedule waits on is fulfilled and
\* waitForSignedIn, called after that fulfilment, has resolved.
C17_ListenersAfterScheduleAndSignIn ==
  /\ (sessionListener \/ feedbackListener) =>
        /\ sessionListener /\ feedbackListener
        /\ loadHanded # NULL
        /\ derived[loadHanded] # NULL
        /\ signIn = "resolved"
  /\ signIn # "none" => (loadHanded # NULL /\ derived[loadHanded] # NULL)

C17_Witness ==
  /\ sessionListener /\ feedbackListener
  /\ loadPc = "registered"
  /\ fetchingUserData

\* C18: there is one deferred, every schedulePromise caller holds its
\* promise; the promise is fulfilled with the scheduleData of the first
\* resolveSchedulePromise call and a later call changes neither that nor
\* what a consumer observed; a consumer's continuation runs with
\* this.scheduleData_ assigned.
C18_SingleAssignment ==
  /\ [](/\ created <= 1
        /\ \A k \in 1..Len(handed) :
             /\ handed[k] = 1
             /\ seen[k].ran =>
                  /\ seen[k].value = raw[1].scheduleData
                  /\ seen[k].value = derived[1]
                  /\ seen[k].data # NULL
        /\ \A d \in DeferredIds :
             derived[d] # NULL => derived[d] = raw[d].scheduleData)
  /\ [][ /\ \A d \in DeferredIds :
              /\ raw[d] # NoPayload => raw'[d] = raw[d]
              /\ derived[d] # NULL => derived'[d] = derived[d]
         /\ \A k \in 1..Len(seen) : seen[k].ran => seen'[k] = seen[k] ]_vars

\* Two resolveSchedulePromise calls, the first before any schedulePromise
\* call, and two consumers that have run.
C18_Witness ==
  /\ resolveCalls = 2
  /\ Len(handed) = 2
  /\ seen[1].ran /\ seen[2].ran
  /\ seen[1].value = seen[2].value

\* C19 as stated: a submitSessionRequest whose request failed has not called
\* the callback, has shown exactly one toast (the error message, with the
\* retry suffix exactly for a network error event on a runtime with service
\* workers) and has rejected with that same error; one whose request
\* succeeded has called the callback with the response and, the callback
\* having returned, shown no toast.
C19_AsStated ==
  \A k \in 1..Len(submits) :
    LET r == submits[k] IN
    /\ r.outcome \in RequestErrors =>
         /\ r.callbackArgs = <<>>
         /\ r.toasts = << IF r.outcome = "event" /\ serviceWorker
                            THEN SURVEY_ERROR_MSG \o RETRY_SUFFIX
                            ELSE SURVEY_ERROR_MSG >>
         /\ r.state = "rejected"
         /\ r.reason = r.outcome
    /\ r.outcome = "ok" =>
         /\ r.callbackArgs = <<r.response>>
         /\ ~r.callbackThrows => r.toasts = <<>>

\* C20: app.savedSessions holds no session id twice; after an update with
\* bookmarked true the session is in the list, after one with bookmarked
\* false it is not; an update with null data, or one that agrees with the
\* list as it is, leaves the list as it is.
C20_SavedSessionsFollowUpdates ==
  /\ [](/\ NoDuplicates(savedSessions)
        /\ lastUpdate.data = "bookmarked" => lastUpdate.sessionId \in Range(savedSessions)
        /\ lastUpdate.data = "notBookmarked" =>
             lastUpdate.sessionId \notin Range(savedSessions))
  /\ [][ ( \/ lastUpdate'.data = "null"
           \/ /\ lastUpdate'.data = "bookmarked"
              /\ lastUpdate'.sessionId \in Range(savedSessions)
           \/ /\ lastUpdate'.data = "notBookmarked"
              /\ lastUpdate'.sessionId \notin Range(savedSessions) )
         => savedSessions' = savedSessions ]_vars

\* A session was removed from between two others.
C20_Witness ==
  /\ savedSessions = <<1, 3>>
  /\ lastUpdate = [sessionId |-> 2, data |-> "notBookmarked"]
  /\ ~fetchingUserData

====
